---- MODULE Spec2Model ----
(***************************************************************************)
(* D-Pad 3D (src/src/visual.ts): the Visual object, its click handlers     *)
(* (Visual.step), its data refresh (Visual.update / visualTransform) and   *)
(* the host's selection manager as seen from the visual.                   *)
(*                                                                         *)
(* Strings are sequences of one-character strings, so that the metadata    *)
(* key "X<h>Y<v>V<r>" is built as the code builds it.  JavaScript arrays   *)
(* are 0-based, the sequences here are 1-based.                            *)
(***************************************************************************)
EXTENDS Integers, Sequences, FiniteSets

(* ------------------------------ bounds --------------------------------- *)

\* longest arbitrary dataset (rows) a refresh delivers
MaxRows == 1
\* number of selectionManager.select calls the model follows
MaxSelects == 3
\* last value of the X series and of the Y series of a generated location table
MaxX == 2
MaxY == 2
\* number of selectionManager.select calls followed on the long table of the
\* lookup specification
MaxLookupSelects == 10

(* --------------------------- JavaScript helpers ------------------------ *)

DigitChars == <<"0", "1", "2", "3", "4", "5", "6", "7", "8", "9">>

RECURSIVE NatToString(_)
NatToString(n) ==
    IF n < 10 THEN <<DigitChars[n + 1]>>
    ELSE NatToString(n \div 10) \o <<DigitChars[(n % 10) + 1]>>

\* Number.prototype.toString() of an integer
toString(n) == IF n < 0 THEN <<"-">> \o NatToString(-n) ELSE NatToString(n)

\* the JavaScript % operator: the result has the sign of the dividend
JsRem(a, b) == IF a >= 0 THEN a % b ELSE -((-a) % b)

\* Math.sin(deg * Math.PI / 180) in units of 1/10000, on the angles the pad holds
SinE4(deg) ==
    CASE deg = 0   -> 0
      [] deg = 45  -> 7071
      [] deg = 90  -> 10000
      [] deg = 135 -> 7071
      [] deg = 180 -> 0
      [] deg = 225 -> -7071
      [] deg = 270 -> -10000
      [] deg = 315 -> -7071

\* Math.cos(deg * Math.PI / 180) in units of 1/10000, on the angles the pad holds
CosE4(deg) ==
    CASE deg = 0   -> 10000
      [] deg = 45  -> 7071
      [] deg = 90  -> 0
      [] deg = 135 -> -7071
      [] deg = 180 -> -10000
      [] deg = 225 -> -7071
      [] deg = 270 -> 0
      [] deg = 315 -> 7071

\* Math.round of a value given in units of 1/10000: floor(x + 0.5)
MathRound(xE4) == (xE4 + 5000) \div 10000

(* ------------------------- constructor constants ----------------------- *)

buttonNames == <<"up", "down", "left", "right">>

\* (variant: the steps of "down" and "left" exchanged with those of "left" and "right")
buttonStepByAxis == <<1, -1, 1, -1>>

buttonStep == <<1, -1, -1, 1>>
buttonDirection == <<"d", "d", "r", "r">>

\* the locals of Visual.step
displacement == 1
rotationStep == 45

\* the default of getValue<number>(objects, 'settings', 'incremental', 1)
DefaultIncremental == 1

Roles == {"horizontalCategory", "verticalCategory", "rotationCategory"}

(* ------------------------ the host's data views ------------------------ *)

\* the display name the host gives the column bound to a role
DisplayNameOf(role) ==
    CASE role = "horizontalCategory" -> "X"
      [] role = "verticalCategory"   -> "Y"
      [] role = "rotationCategory"   -> "V"

\* the value of a dataset row <<h, v, r>> in the column bound to a role
ValueOf(row, role) ==
    CASE role = "horizontalCategory" -> row[1]
      [] role = "verticalCategory"   -> row[2]
      [] role = "rotationCategory"   -> row[3]

\* options.dataViews as the host delivers it for the columns bound to
\* roleSeq (in field-well order), the dataset rows and the format pane
\* objects (<<>>: settings.incremental not set, <<k>>: set to k)
MakeDataView(roleSeq, rows, objects) ==
    [ present     |-> TRUE,
      columns     |-> [i \in 1..Len(roleSeq) |->
                         [roles |-> {roleSeq[i]},
                          displayName |-> DisplayNameOf(roleSeq[i])]],
      categories  |-> [i \in 1..Len(roleSeq) |->
                         [displayName |-> DisplayNameOf(roleSeq[i]),
                          values |-> [j \in 1..Len(rows) |-> ValueOf(rows[j], roleSeq[i])]]],
      objects     |-> objects ]

\* a refresh that carries no data view at all: options.dataViews[0] is undefined
NoDataView == [present |-> FALSE, columns |-> <<>>, categories |-> <<>>, objects |-> <<>>]

\* the positions arbitrary datasets are made of
Triples == {<<1, 2, 0>>, <<1, 1, 315>>}

RECURSIVE SeqsUpTo(_, _)
SeqsUpTo(S, n) ==
    IF n = 0 THEN {<<>>}
    ELSE LET shorter == SeqsUpTo(S, n - 1)
         IN shorter \cup {Append(q, e) : q \in {t \in shorter : Len(t) = n - 1}, e \in S}

SmallTables == SeqsUpTo(Triples, MaxRows)

\* GENERATESERIES(first; last; increment): first, first + increment, ... up to last
GENERATESERIES(first, last, increment) ==
    [i \in 1..(IF last < first THEN 0 ELSE (last - first) \div increment + 1) |->
        first + (i - 1) * increment]

\* a location table as the README generates it: the CROSSJOIN of an X, a Y and
\* a V series, in row order.  The README's X series ends at 50 and its Y
\* series at 75; here they end at MaxX and MaxY.
XSeries == GENERATESERIES(1, MaxX, 1)
YSeries == GENERATESERIES(1, MaxY, 1)
VSeries == GENERATESERIES(0, 330, 45)
GridTable ==
    [k \in 1..(Len(XSeries) * Len(YSeries) * Len(VSeries)) |->
        <<XSeries[1 + ((k - 1) \div (Len(YSeries) * Len(VSeries)))],
          YSeries[1 + (((k - 1) \div Len(VSeries)) % Len(YSeries))],
          VSeries[1 + ((k - 1) % Len(VSeries))]>>]

\* the table of the spec's examples
ExampleTable == <<<<1, 1, 0>>, <<1, 2, 0>>>>

\* a dataset that holds one position in two rows
DuplicateTable == <<<<1, 2, 0>>, <<1, 2, 0>>>>

\* a dataset whose rotation column holds values off the 45 degree raster
OffRasterTable == <<<<1, 1, -45>>, <<1, 1, 30>>, <<1, 1, 360>>, <<1, 1, 315>>>>

\* a dataset along the diagonal of rotation 315 through (1,1), from (3,-1) to
\* (-8,10), behind rows whose digits read like those of positions on the
\* diagonal and next to its ends
LookAlikeTable ==
    <<<<-81, 0, 315>>, <<-8, 103, 15>>, <<8, 10, 315>>, <<-8, -10, 315>>,
      <<11, 3, 15>>, <<1, 13, 15>>, <<-91, 1, 315>>, <<-9, 113, 15>>,
      <<3, -13, 15>>, <<4, -23, 15>>>>
LineTable == [k \in 1..12 |-> <<4 - k, k - 2, 315>>]
LookupTable == LookAlikeTable \o LineTable

AllRoles == <<"horizontalCategory", "verticalCategory", "rotationCategory">>
VerticalFirst == <<"verticalCategory", "horizontalCategory", "rotationCategory">>
NoRotation == <<"horizontalCategory", "verticalCategory">>

\* the step-increment values the format pane is set to in the model
Increments == {2}

DataViews ==
    {MakeDataView(AllRoles, rows, <<>>) : rows \in SmallTables}
    \cup {MakeDataView(AllRoles, rows, <<>>) :
             rows \in {GridTable, OffRasterTable, ExampleTable, DuplicateTable}}
    \cup {MakeDataView(AllRoles, ExampleTable, <<k>>) : k \in Increments}
    \cup {MakeDataView(VerticalFirst, <<<<1, 2, 0>>>>, <<>>)}
    \cup {MakeDataView(NoRotation, rows, <<>>) : rows \in {<<>>, <<<<1, 2, 0>>>>}}
    \cup {MakeDataView(<<>>, <<>>, <<>>), NoDataView}

\* the data views of the lookup specification
LookupDataViews ==
    {MakeDataView(AllRoles, rows, <<>>) : rows \in {LookupTable, LookAlikeTable}}

(* ---------------------------- visualTransform -------------------------- *)

\* the result of a loop that overwrites its result at every index of hits:
\* the last of them, 0 when there is none (-1 in the code)
LastIndex(hits) ==
    IF hits = {} THEN 0 ELSE CHOOSE i \in hits : \A j \in hits : j <= i

\* the else-if chain of the first loop: the role a metadata column counts for
RoleOfColumn(col) ==
    IF "horizontalCategory" \in col.roles THEN "horizontalCategory"
    ELSE IF "verticalCategory" \in col.roles THEN "verticalCategory"
    ELSE IF "rotationCategory" \in col.roles THEN "rotationCategory"
    ELSE ""

\* horizontalDisplayName, verticalDisplayName, rotationDisplayName after the first loop
DisplayNameFor(columns, role) ==
    LET i == LastIndex({j \in 1..Len(columns) : RoleOfColumn(columns[j]) = role})
    IN IF i = 0 THEN "" ELSE columns[i].displayName

\* sortedBy after the first loop: set by the column at index 0 only
SortedBy(columns) ==
    IF Len(columns) = 0 THEN ""
    ELSE IF RoleOfColumn(columns[1]) = "horizontalCategory" THEN "horizontal"
    ELSE IF RoleOfColumn(columns[1]) = "verticalCategory" THEN "vertical"
    ELSE ""

\* the else-if chain of the second loop: the axis a category counts for
AxisOfCategory(cat, hName, vName, rName) ==
    IF cat.displayName = hName THEN "h"
    ELSE IF cat.displayName = vName THEN "v"
    ELSE IF cat.displayName = rName THEN "r"
    ELSE ""

\* horizontalIdxInCategories, verticalIdxInCategories, rotationIdxInCategories
\* (1-based, 0 for the code's -1)
IdxInCategories(dv, axis) ==
    LET hName == DisplayNameFor(dv.columns, "horizontalCategory")
        vName == DisplayNameFor(dv.columns, "verticalCategory")
        rName == DisplayNameFor(dv.columns, "rotationCategory")
    IN LastIndex({i \in 1..Len(dv.categories) :
                     AxisOfCategory(dv.categories[i], hName, vName, rName) = axis})

\* getValue<number>(objects, 'settings', 'incremental', 1)
getValue(objects, defaultValue) ==
    IF Len(objects) = 0 THEN defaultValue ELSE objects[1]

\* (variant: the three numbers are concatenated without the letters between them)
PositionMetadataPlain(h, v, r) == toString(h) \o toString(v) \o toString(r)

\* the measure of a data point's selection id: 'X' + h + 'Y' + v + 'V' + r
PositionMetadata(h, v, r) ==
    <<"X">> \o toString(h) \o <<"Y">> \o toString(v) \o <<"V">> \o toString(r)

\* a selection id of the host: the category row it was built with and its
\* measure (<<>> when built without withMeasure)
SelectionId(index, metadata) == [index |-> index, metadata |-> metadata]

\* does visualTransform throw a TypeError on this data view?
\*   line 95: options.dataViews[0] is undefined;
\*   line 165: categorical.categories[0] is undefined;
\*   lines 170-173: a category variable is still undefined, or a column is
\*   shorter than category 0, when a row is turned into a data point
TransformThrows(dv) ==
    \/ ~dv.present
    \/ Len(dv.categories) = 0
    \/ /\ Len(dv.categories[1].values) > 0
       /\ \E axis \in {"h", "v", "r"} :
             \/ IdxInCategories(dv, axis) = 0
             \/ Len(dv.categories[IdxInCategories(dv, axis)].values)
                  < Len(dv.categories[1].values)

\* the data points of one axis (horizontalDataPoints, verticalDataPoints)
AxisDataPoints(dv, axis) ==
    LET idx == IdxInCategories(dv, axis)
    IN IF idx = 0 THEN <<>>
       ELSE [i \in 1..Len(dv.categories[idx].values) |->
               [category |-> toString(dv.categories[idx].values[i]),
                selectionId |-> SelectionId(i, <<>>)]]

\* the view model visualTransform returns when it does not throw
visualTransform(dv) ==
    LET hIdx == IdxInCategories(dv, "h")
        vIdx == IdxInCategories(dv, "v")
        rIdx == IdxInCategories(dv, "r")
        valuesToBeTransformed == dv.categories[1].values
    IN [ defined |-> TRUE,
         horizontalDataPoints |-> AxisDataPoints(dv, "h"),
         verticalDataPoints |-> AxisDataPoints(dv, "v"),
         dataPoints |->
            [i \in 1..Len(valuesToBeTransformed) |->
               [category |-> toString(valuesToBeTransformed[i]),
                selectionId |->
                   SelectionId(i, PositionMetadata(dv.categories[hIdx].values[i],
                                                   dv.categories[vIdx].values[i],
                                                   dv.categories[rIdx].values[i]))]],
         numberOfAxis |-> (IF hIdx > 0 THEN 1 ELSE 0) + (IF vIdx > 0 THEN 1 ELSE 0)
                            + (IF rIdx > 0 THEN 1 ELSE 0),
         sortedBy |-> SortedBy(dv.columns),
         settings |-> [incremental |-> getValue(dv.objects, DefaultIncremental)] ]

\* the dataset rows <<h, v, r>> the data points of a data view are built from
\* (lines 171-173), <<>> when visualTransform throws
RowsOf(dv) ==
    IF TransformThrows(dv) THEN <<>>
    ELSE [i \in 1..Len(dv.categories[1].values) |->
            <<dv.categories[IdxInCategories(dv, "h")].values[i],
              dv.categories[IdxInCategories(dv, "v")].values[i],
              dv.categories[IdxInCategories(dv, "r")].values[i]>>]

\* a data view lacks a category role: a data view is absent, or no category is
\* found for one of the three axes (lines 128-144 leave its variable undefined)
Malformed(dv) ==
    \/ ~dv.present
    \/ \E axis \in {"h", "v", "r"} : IdxInCategories(dv, axis) = 0

\* what one call of visualTransform does, for every data view of the model
Transformed ==
    [dv \in DataViews \cup LookupDataViews |->
        [thrown |-> TransformThrows(dv),
         malformed |-> Malformed(dv),
         viewModel |-> IF TransformThrows(dv) THEN [defined |-> FALSE] ELSE visualTransform(dv),
         rows |-> RowsOf(dv)]]

\* this.viewModel before the first update
Undefined == [defined |-> FALSE]

(* ------------------------------ Visual.step ---------------------------- *)

\* (variant: sine and cosine exchanged)
NewHorizontalByCosine(horizontal, rotation, direction, step) ==
    IF direction = "d"
    THEN horizontal + MathRound(displacement * CosE4(rotation)) * step
    ELSE horizontal

\* newHorizontal after lines 284-295
NewHorizontal(horizontal, rotation, direction, step) ==
    IF direction = "d"
    THEN horizontal + MathRound(displacement * SinE4(rotation)) * step
    ELSE horizontal

\* (variant: the sign of the step is dropped)
NewVerticalForward(vertical, rotation, direction, step) ==
    IF direction = "d"
    THEN vertical + MathRound(displacement * CosE4(rotation))
    ELSE vertical

\* newVertical after lines 285-295
NewVertical(vertical, rotation, direction, step) ==
    IF direction = "d"
    THEN vertical + MathRound(displacement * CosE4(rotation)) * step
    ELSE vertical

\* (variant: the negative sum is not brought back into range)
NewRotationByRemainder(rotation, direction, step) ==
    IF direction = "r"
    THEN JsRem(rotation + rotationStep * step, 360)
    ELSE rotation

\* (variant: the sign of the step is dropped)
NewRotationForward(rotation, direction, step) ==
    IF direction = "r"
    THEN JsRem(rotation + rotationStep, 360)
    ELSE rotation

\* (variant: the sum is not normalised at all)
NewRotationRaw(rotation, direction, step) ==
    IF direction = "r" THEN rotation + rotationStep * step ELSE rotation

\* newRotation after lines 286-302
NewRotation(rotation, direction, step) ==
    IF direction = "r"
    THEN LET sum == rotation + rotationStep * step
         IN IF sum < 0 THEN sum + 360 ELSE JsRem(sum, 360)
    ELSE rotation

\* (variant: the loop has no break and keeps the last data point it finds)
FindLastDataPoint(dataPoints, newPositionMetadata) ==
    LET hits == {i \in 1..Len(dataPoints) :
                    dataPoints[i].selectionId.metadata = newPositionMetadata}
    IN IF hits = {} THEN 0 ELSE CHOOSE i \in hits : \A j \in hits : j <= i

\* the loop of lines 315-323: the index of the first data point whose
\* selection id carries the metadata, 0 when the loop ends with foundId false
FindDataPoint(dataPoints, newPositionMetadata) ==
    LET hits == {i \in 1..Len(dataPoints) :
                    dataPoints[i].selectionId.metadata = newPositionMetadata}
    IN IF hits = {} THEN 0 ELSE CHOOSE i \in hits : \A j \in hits : i <= j

\* (variant: the new pose is never stored)
CommitNever(foundId, newValue, lastValue) == lastValue

\* (variant: the new pose is committed without looking at foundId)
CommitAlways(foundId, newValue, lastValue) == newValue

\* lines 325-331: the value a pose field holds after the step
Commit(foundId, newValue, lastValue) == IF foundId THEN newValue ELSE lastValue

\* (variant: select is called whether or not a data point was found)
SelectAlways(foundId, newSelectionId) == <<newSelectionId>>

\* (variant: select is called twice for a found data point)
SelectTwice(foundId, newSelectionId) ==
    IF foundId THEN <<newSelectionId, newSelectionId>> ELSE <<>>

\* lines 325-327: the calls of selectionManager.select the step makes
SelectCalls(foundId, newSelectionId) == IF foundId THEN <<newSelectionId>> ELSE <<>>

(* --------------------------------- state ------------------------------- *)

VARIABLES
    lastHorizontal,     \* this.lastHorizontal
    lastVertical,       \* this.lastVertical
    lastRotation,       \* this.lastRotation
    viewModel,          \* this.viewModel
    visualSettings,     \* this.visualSettings
    selection,          \* selection manager: <<id>> of the last select call, <<>> before any
    selectCount,        \* selection manager: number of select calls so far
    tableRows,          \* history: the dataset rows this.viewModel.dataPoints was built from
    refreshedSinceMove, \* history: update replaced this.viewModel after the last successful step
    moveCount,          \* history: number of steps that found their target
    lastOp,             \* history: the latest handler run
    prevOp              \* history: the handler run before it

pose == <<lastHorizontal, lastVertical, lastRotation>>
selectionManager == <<selection, selectCount>>
history == <<tableRows, refreshedSinceMove, moveCount, lastOp, prevOp>>
vars == <<lastHorizontal, lastVertical, lastRotation, viewModel, visualSettings,
          selection, selectCount, tableRows, refreshedSinceMove, moveCount, lastOp, prevOp>>

NoOp == [op |-> "none", button |-> 0, direction |-> "", step |-> 0,
         before |-> <<1, 1, 0>>, target |-> <<1, 1, 0>>,
         foundId |-> FALSE, thrown |-> FALSE, malformed |-> FALSE, dv |-> NoDataView]

\* the state the constructor leaves (lines 225-231)
Init ==
    /\ lastVertical = 1
    /\ lastHorizontal = 1
    /\ lastRotation = 0
    /\ viewModel = Undefined
    /\ visualSettings = Undefined
    /\ selection = <<>>
    /\ selectCount = 0
    /\ tableRows = <<>>
    /\ refreshedSinceMove = FALSE
    /\ moveCount = 0
    /\ lastOp = NoOp
    /\ prevOp = NoOp

\* Visual.step(direction, step), run by the click handler of button b, in a
\* run followed up to maxSelects calls of selectionManager.select.
\* Before the first update this.viewModel is undefined and line 315 throws.
StepWithin(maxSelects, b, direction, step) ==
    LET newHorizontal == NewHorizontal(lastHorizontal, lastRotation, direction, step)
        newVertical == NewVertical(lastVertical, lastRotation, direction, step)
        newRotation == NewRotation(lastRotation, direction, step)
        newPositionMetadata == PositionMetadata(newHorizontal, newVertical, newRotation)
        thrown == ~viewModel.defined
        index == IF thrown THEN 0
                 ELSE FindDataPoint(viewModel.dataPoints, newPositionMetadata)
        foundId == index # 0
        newSelectionId == IF foundId THEN viewModel.dataPoints[index].selectionId
                          ELSE SelectionId(0, <<>>)
        calls == SelectCalls(foundId, newSelectionId)
    IN /\ selectCount + Len(calls) <= maxSelects
       /\ selection' = IF Len(calls) = 0 THEN selection ELSE <<calls[Len(calls)]>>
       /\ selectCount' = selectCount + Len(calls)
       /\ lastHorizontal' = Commit(foundId, newHorizontal, lastHorizontal)
       /\ lastVertical' = Commit(foundId, newVertical, lastVertical)
       /\ lastRotation' = Commit(foundId, newRotation, lastRotation)
       /\ moveCount' = IF foundId THEN moveCount + 1 ELSE moveCount
       /\ refreshedSinceMove' = IF foundId THEN FALSE ELSE refreshedSinceMove
       /\ lastOp' = [op |-> "step", button |-> b, direction |-> direction, step |-> step,
                     before |-> pose,
                     target |-> <<newHorizontal, newVertical, newRotation>>,
                     foundId |-> foundId, thrown |-> thrown,
                     malformed |-> FALSE, dv |-> NoDataView]
       /\ prevOp' = lastOp
       /\ UNCHANGED <<viewModel, visualSettings, tableRows>>

Step(b, direction, step) == StepWithin(MaxSelects, b, direction, step)

\* the click handler of button b (lines 253-257)
Click(b) == Step(b, buttonDirection[b], buttonStep[b])

\* (variant: a refresh that installs a view model puts the pad back to the default pose)
UpdateResettingPose(dv) ==
    LET result == Transformed[dv]
        thrown == result.thrown
    IN /\ viewModel' = IF thrown THEN viewModel ELSE result.viewModel
       /\ visualSettings' = IF thrown THEN visualSettings
                            ELSE [defined |-> TRUE, settings |-> result.viewModel.settings]
       /\ tableRows' = IF thrown THEN tableRows ELSE result.rows
       /\ refreshedSinceMove' = IF thrown THEN refreshedSinceMove ELSE TRUE
       /\ lastOp' = [op |-> "update", button |-> 0, direction |-> "", step |-> 0,
                     before |-> pose, target |-> pose,
                     foundId |-> FALSE, thrown |-> thrown,
                     malformed |-> result.malformed, dv |-> dv]
       /\ prevOp' = lastOp
       /\ lastHorizontal' = IF thrown THEN lastHorizontal ELSE 1
       /\ lastVertical' = IF thrown THEN lastVertical ELSE 1
       /\ lastRotation' = IF thrown THEN lastRotation ELSE 0
       /\ UNCHANGED <<selection, selectCount, moveCount>>

\* Visual.update(options) (lines 261-280): when visualTransform throws, the
\* assignments of lines 263-264 are not reached
Update(dv) ==
    LET result == Transformed[dv]
        thrown == result.thrown
    IN /\ viewModel' = IF thrown THEN viewModel ELSE result.viewModel
       /\ visualSettings' = IF thrown THEN visualSettings
                            ELSE [defined |-> TRUE, settings |-> result.viewModel.settings]
       /\ tableRows' = IF thrown THEN tableRows ELSE result.rows
       /\ refreshedSinceMove' = IF thrown THEN refreshedSinceMove ELSE TRUE
       /\ lastOp' = [op |-> "update", button |-> 0, direction |-> "", step |-> 0,
                     before |-> pose, target |-> pose,
                     foundId |-> FALSE, thrown |-> thrown,
                     malformed |-> result.malformed, dv |-> dv]
       /\ prevOp' = lastOp
       /\ UNCHANGED <<lastHorizontal, lastVertical, lastRotation, selection,
                      selectCount, moveCount>>

Next ==
    \/ \E b \in 1..Len(buttonNames) : Click(b)
    \/ \E dv \in DataViews : Update(dv)

Spec == Init /\ [][Next]_vars

(* ------------------------- vocabulary of the claims -------------------- *)

DefaultPose == <<1, 1, 0>>
Rotations == {0, 45, 90, 135, 180, 225, 270, 315}

\* the PositionTable: one PositionRecord per data point of this.viewModel
PositionTable ==
    IF viewModel.defined
    THEN [i \in 1..Len(viewModel.dataPoints) |->
            [horizontal |-> tableRows[i][1], vertical |-> tableRows[i][2],
             rotation |-> tableRows[i][3], id |-> viewModel.dataPoints[i].selectionId]]
    ELSE <<>>

\* the PositionRecords matching a pose <<h, v, r>>
MatchingRecords(p) ==
    {i \in 1..Len(PositionTable) :
        <<PositionTable[i].horizontal, PositionTable[i].vertical, PositionTable[i].rotation>> = p}

\* the displacement (dh, dv) of a translation at rotation r, as the spec lists it
UnitVector(r) ==
    CASE r = 0   -> <<0, 1>>
      [] r = 45  -> <<1, 1>>
      [] r = 90  -> <<1, 0>>
      [] r = 135 -> <<1, -1>>
      [] r = 180 -> <<0, -1>>
      [] r = 225 -> <<-1, -1>>
      [] r = 270 -> <<-1, 0>>
      [] r = 315 -> <<-1, 1>>

(* ---------------------------------- C1 --------------------------------- *)

\* C1 as stated: the committed pose matches exactly one PositionRecord of the
\* current PositionTable, or is the default pose and no move has succeeded.
C1_PoseMatchesExactlyOneRecord ==
    \/ Cardinality(MatchingRecords(pose)) = 1
    \/ pose = DefaultPose /\ moveCount = 0

\* C1 (amended): the committed pose matches at least one PositionRecord of the
\* current PositionTable, or a data refresh has replaced the PositionTable
\* since the last successful move, or it is the default pose and no move has
\* succeeded.
C1_PoseBackedByTable ==
    \/ MatchingRecords(pose) # {}
    \/ refreshedSinceMove
    \/ pose = DefaultPose /\ moveCount = 0

\* a move succeeded on a table that holds its target twice
C1_Witness ==
    /\ lastOp.op = "step" /\ lastOp.foundId
    /\ pose # DefaultPose
    /\ Cardinality(MatchingRecords(pose)) = 2

(* ---------------------------------- C2 --------------------------------- *)

\* C2: a move whose computed target has no matching PositionRecord leaves the
\* pose as it was, emits no selection event and leaves the last emitted
\* selection unchanged.
C2_AbsentTargetIsNoOp ==
    [][ (lastOp'.op = "step" /\ MatchingRecords(lastOp'.target) = {})
          => /\ pose' = pose
             /\ selectCount' = selectCount
             /\ selection' = selection ]_vars

\* a move off the defined table, after an earlier move had selected a record
C2_Witness ==
    /\ lastOp.op = "step" /\ ~lastOp.thrown
    /\ MatchingRecords(lastOp.target) = {}
    /\ Len(PositionTable) > 0
    /\ selectCount > 0 /\ selection # <<>>
    /\ pose = lastOp.before

(* ---------------------------------- C3 --------------------------------- *)

\* C3: a move whose computed target has a matching PositionRecord commits the
\* target as the pose and calls the selection service exactly once, with the
\* identifier of a record matching the target; the number of selection events
\* always equals the number of successful moves.
C3_FoundTargetCommitsAndSelectsOnce ==
    /\ [][ (lastOp'.op = "step" /\ MatchingRecords(lastOp'.target) # {})
             => /\ pose' = lastOp'.target
                /\ selectCount' = selectCount + 1
                /\ \E i \in MatchingRecords(lastOp'.target) :
                      selection' = <<PositionTable[i].id>> ]_vars
    /\ [](selectCount = moveCount)

\* the example of the spec: table {(1,1,0),(1,2,0)}, up from (1,1,0)
C3_Witness ==
    /\ lastOp.op = "step" /\ lastOp.button = 1
    /\ tableRows = ExampleTable
    /\ lastOp.before = <<1, 1, 0>>
    /\ pose = <<1, 2, 0>>
    /\ selection = <<SelectionId(2, PositionMetadata(1, 2, 0))>>
    /\ selectCount = 1

(* ---------------------------------- C4 --------------------------------- *)

\* C4: move(translate, step) at rotation r computes the target
\* (horizontal + dh * step, vertical + dv * step, r) with (dh, dv) =
\* (0,1),(1,1),(1,0),(1,-1),(0,-1),(-1,-1),(-1,0),(-1,1) for r = 0,45,...,315.
C4_TranslateTarget ==
    (lastOp.op = "step" /\ lastOp.direction = "d")
      => /\ lastOp.step \in {-1, 1}
         /\ lastOp.before[3] \in Rotations
         /\ lastOp.target =
              <<lastOp.before[1] + UnitVector(lastOp.before[3])[1] * lastOp.step,
                lastOp.before[2] + UnitVector(lastOp.before[3])[2] * lastOp.step,
                lastOp.before[3]>>

\* a backward translation at rotation 315 that moved the pad from (1,2) to (2,1)
C4_Witness ==
    /\ lastOp.op = "step" /\ lastOp.direction = "d" /\ lastOp.step = -1
    /\ lastOp.before = <<1, 2, 315>>
    /\ lastOp.foundId
    /\ pose = <<2, 1, 315>>

(* ---------------------------------- C5 --------------------------------- *)

\* C5: move(rotate, step) at rotation r computes the target rotation
\* (r + 45 * step) mod 360 in [0, 360), with horizontal and vertical of the
\* target equal to the current ones.
C5_RotateTarget ==
    (lastOp.op = "step" /\ lastOp.direction = "r")
      => /\ lastOp.step \in {-1, 1}
         /\ lastOp.target[1] = lastOp.before[1]
         /\ lastOp.target[2] = lastOp.before[2]
         /\ lastOp.target[3] = (lastOp.before[3] + 45 * lastOp.step) % 360
         /\ lastOp.target[3] >= 0 /\ lastOp.target[3] < 360

\* the two wraps: 0 with -1 gave 315, and then 315 with +1 gave 0
C5_Witness ==
    /\ prevOp.op = "step" /\ prevOp.direction = "r" /\ prevOp.step = -1
    /\ prevOp.before[3] = 0 /\ prevOp.target[3] = 315 /\ prevOp.foundId
    /\ lastOp.op = "step" /\ lastOp.direction = "r" /\ lastOp.step = 1
    /\ lastOp.before[3] = 315 /\ lastOp.target[3] = 0 /\ lastOp.foundId
    /\ lastRotation = 0

(* ---------------------------------- C6 --------------------------------- *)

\* C6: the committed rotation is always a multiple of 45 with
\* 0 <= rotation < 360, whatever the PositionTable holds.
C6_RotationOnRaster ==
    /\ lastRotation % 45 = 0
    /\ 0 <= lastRotation /\ lastRotation < 360

\* a left turn from rotation 0 on a table that holds rotations -45, 30, 360
\* and 315: the pad is at 315
C6_Witness ==
    /\ lastOp.op = "step" /\ lastOp.direction = "r" /\ lastOp.step = -1
    /\ lastOp.before[3] = 0
    /\ tableRows = OffRasterTable
    /\ lastOp.foundId
    /\ lastRotation = 315

(* ---------------------------------- C7 --------------------------------- *)

\* move(rotate, +1) and then move(rotate, -1) were the last two handlers run
RotateRightThenLeft ==
    /\ prevOp.op = "step" /\ prevOp.direction = "r" /\ prevOp.step = 1
    /\ lastOp.op = "step" /\ lastOp.direction = "r" /\ lastOp.step = -1

\* C7 as stated: move(rotate, +1) and then move(rotate, -1), with no refresh
\* in between, leave the committed rotation at its value before the two moves.
C7_RotateRoundTripAlways ==
    RotateRightThenLeft => lastRotation = prevOp.before[3]

\* C7 (amended): move(rotate, +1) and then move(rotate, -1), with no refresh in
\* between, leave the committed rotation at its value before the two moves
\* when the PositionTable holds a record for the pose rotated by +45 and one
\* for the pose before the moves (both moves succeed), or holds neither of
\* the two targets (both moves are no-ops).
C7_RotateRoundTrip ==
    RotateRightThenLeft =>
       /\ (MatchingRecords(prevOp.target) # {} /\ MatchingRecords(prevOp.before) # {})
             => (lastOp.foundId /\ lastRotation = prevOp.before[3])
       /\ (MatchingRecords(prevOp.target) = {} /\ MatchingRecords(lastOp.target) = {})
             => lastRotation = prevOp.before[3]

\* right from 315 went to 0 and left from 0 came back to 315
C7_Witness ==
    /\ RotateRightThenLeft
    /\ prevOp.before[3] = 315 /\ prevOp.foundId
    /\ lastOp.before[3] = 0 /\ lastOp.foundId
    /\ lastRotation = 315

(* ---------------------------------- C8 --------------------------------- *)

\* C8: with step-increment k read at the latest refresh, move(axis, step)
\* computes its target with the displacement step * k instead of step.
C8_IncrementScalesStep ==
    (lastOp.op = "step" /\ visualSettings.defined)
      => LET k == visualSettings.settings.incremental
             h == lastOp.before[1]
             v == lastOp.before[2]
             r == lastOp.before[3]
         IN lastOp.target =
              IF lastOp.direction = "d"
              THEN <<h + UnitVector(r)[1] * lastOp.step * k,
                     v + UnitVector(r)[2] * lastOp.step * k, r>>
              ELSE <<h, v, (r + 45 * lastOp.step * k) % 360>>

(* ---------------------------------- C9 --------------------------------- *)

\* C9: a refresh whose data view is absent or lacks a category role completes
\* without an error and leaves an empty PositionTable, and the move after it
\* is a no-op.
C9_MalformedRefreshEmptiesTable ==
    /\ (lastOp.op = "update" /\ lastOp.malformed)
          => (~lastOp.thrown /\ viewModel.defined /\ Len(PositionTable) = 0)
    /\ (lastOp.op = "step" /\ prevOp.op = "update" /\ prevOp.malformed)
          => (~lastOp.foundId /\ pose = lastOp.before /\ selectCount = moveCount
              /\ MatchingRecords(lastOp.target) = {})

(* ---------------------------------- C10 -------------------------------- *)

\* C10: after a refresh the PositionTable consists of exactly the records of
\* the refresh's data load, one per dataset row, and the move after the
\* refresh succeeds only on a target present in that load.
C10_TableIsLatestLoad ==
    /\ lastOp.op = "update"
          => /\ viewModel.defined
             /\ tableRows = Transformed[lastOp.dv].rows
             /\ Len(viewModel.dataPoints) = Len(tableRows)
             /\ \A i \in 1..Len(tableRows) :
                   viewModel.dataPoints[i].selectionId =
                      SelectionId(i, PositionMetadata(tableRows[i][1], tableRows[i][2],
                                                      tableRows[i][3]))
    /\ (lastOp.op = "step" /\ prevOp.op = "update" /\ lastOp.foundId)
          => \E i \in 1..Len(Transformed[prevOp.dv].rows) :
                Transformed[prevOp.dv].rows[i] = lastOp.target

(* ---------------------------------- C14 -------------------------------- *)

\* C14: a data refresh leaves the committed pose unchanged and emits no
\* selection event, whatever the new PositionTable holds: the pose is neither
\* reset to the default nor re-validated against the new table.
C14_RefreshKeepsPose ==
    [][ lastOp'.op = "update"
          => /\ pose' = pose
             /\ selection' = selection
             /\ selectCount' = selectCount ]_vars

\* a refresh installed a table without a record for the pose the pad had
\* moved to, and the pad is still there
C14_Witness ==
    /\ lastOp.op = "update" /\ ~lastOp.thrown
    /\ moveCount > 0 /\ selectCount > 0
    /\ pose # DefaultPose
    /\ pose = lastOp.before
    /\ Len(PositionTable) > 0
    /\ MatchingRecords(pose) = {}

(* ---------------------------------- C15 -------------------------------- *)

\* C15: when a move has succeeded and no refresh has replaced the table since
\* the last successful move, the identifier of the most recent selection
\* event is that of a PositionRecord whose (horizontal, vertical, rotation)
\* is the committed pose.
C15_SelectionIsAtPose ==
    (moveCount > 0 /\ ~refreshedSinceMove)
      => /\ selection # <<>>
         /\ \E i \in MatchingRecords(pose) : PositionTable[i].id = selection[1]

\* two successful moves, then a move off the table: the selection is still
\* the record of the pose
C15_Witness ==
    /\ moveCount >= 2 /\ ~refreshedSinceMove
    /\ lastOp.op = "step" /\ ~lastOp.foundId /\ ~lastOp.thrown
    /\ prevOp.op = "step" /\ prevOp.foundId
    /\ selection = <<SelectionId(8, PositionMetadata(1, 1, 315))>>
    /\ pose = <<1, 1, 315>>

(* ---------------------------------- C16 -------------------------------- *)

\* C16: 'up' invokes move(translate, +1), 'down' move(translate, -1), 'left'
\* move(rotate, -1) and 'right' move(rotate, +1); a click invokes one move and
\* none with another axis or step.
C16_ButtonsToMoves ==
    lastOp.op = "step"
      => /\ lastOp.button \in 1..4
         /\ <<buttonNames[lastOp.button], lastOp.direction, lastOp.step>>
               \in {<<"up", "d", 1>>, <<"down", "d", -1>>,
                    <<"left", "r", -1>>, <<"right", "r", 1>>}
         /\ lastOp.direction = "d"
               => /\ lastOp.target[3] = lastOp.before[3]
                  /\ lastOp.target[2] - lastOp.before[2]
                        = UnitVector(lastOp.before[3])[2] * lastOp.step
         /\ lastOp.direction = "r"
               => lastOp.target[3] = (lastOp.before[3] + 45 * lastOp.step) % 360

\* 'left' then 'down': the pad turned from 0 to 315 and then moved backward
\* from (1,1) to (2,0), which the table does not hold
C16_Witness ==
    /\ prevOp.op = "step" /\ buttonNames[prevOp.button] = "left"
    /\ prevOp.before = <<1, 1, 0>> /\ prevOp.foundId
    /\ lastOp.op = "step" /\ buttonNames[lastOp.button] = "down"
    /\ lastOp.before = <<1, 1, 315>>
    /\ lastOp.target = <<2, 0, 315>>
    /\ ~lastOp.foundId

(* ---------------------------------- C17 -------------------------------- *)

\* move(translate, s) and then move(translate, -s) were the last two handlers run
TranslateThenBack ==
    /\ prevOp.op = "step" /\ prevOp.direction = "d"
    /\ lastOp.op = "step" /\ lastOp.direction = "d"
    /\ lastOp.step = -prevOp.step

\* C17: from a pose p that has a record in the PositionTable, when
\* move(translate, s) succeeds, the immediately following move(translate, -s)
\* succeeds and restores the committed pose to p.
C17_TranslateRoundTrip ==
    (TranslateThenBack /\ prevOp.foundId /\ MatchingRecords(prevOp.before) # {})
      => /\ lastOp.foundId
         /\ lastOp.target = prevOp.before
         /\ pose = prevOp.before

\* forward along the diagonal from (1,1,45) to (2,2,45) and back
C17_Witness ==
    /\ TranslateThenBack
    /\ prevOp.step = 1
    /\ prevOp.before = <<1, 1, 45>> /\ prevOp.target = <<2, 2, 45>> /\ prevOp.foundId
    /\ lastOp.before = <<2, 2, 45>> /\ lastOp.foundId
    /\ pose = <<1, 1, 45>>

(* ---------------------------------- C18 -------------------------------- *)

\* the first of a non-empty set of table indexes
FirstOf(indexes) == CHOOSE i \in indexes : \A j \in indexes : i <= j

\* C18: a move onto a target that several PositionRecords match emits exactly
\* one selection event, carrying the identifier of the first of them in table
\* order.
C18_FirstDuplicateSelected ==
    [][ (lastOp'.op = "step" /\ Cardinality(MatchingRecords(lastOp'.target)) >= 2)
          => /\ selectCount' = selectCount + 1
             /\ selection' = <<PositionTable[FirstOf(MatchingRecords(lastOp'.target))].id>> ]_vars

\* 'up' from (1,1,0) on the table that holds (1,2,0) in rows 1 and 2
C18_Witness ==
    /\ lastOp.op = "step" /\ lastOp.foundId
    /\ tableRows = DuplicateTable
    /\ lastOp.target = <<1, 2, 0>>
    /\ pose = <<1, 2, 0>>
    /\ selection = <<SelectionId(1, PositionMetadata(1, 2, 0))>>
    /\ PositionTable[2].id = SelectionId(2, PositionMetadata(1, 2, 0))

(* ---------------------------------- C12 -------------------------------- *)

\* The lookup specification: the visual from its constructor, refreshed with
\* LookupTable or with LookAlikeTable alone, and clicked along the diagonal
\* of LookupTable, to negative and to two-digit positions.

\* the click handler of button b (lines 253-257) in the lookup specification
LookupClick(b) == StepWithin(MaxLookupSelects, b, buttonDirection[b], buttonStep[b])

LookupNext ==
    \/ \E b \in 1..Len(buttonNames) : LookupClick(b)
    \/ \E dv \in LookupDataViews : Update(dv)

LookupSpec == Init /\ [][LookupNext]_vars

\* C12: the lookup of a move finds a data point exactly when the
\* PositionTable holds a record whose (horizontal, vertical, rotation) equals
\* the computed target, also for negative and multi-digit values.
C12_LookupIsExactMatch ==
    (lastOp.op = "step" /\ ~lastOp.thrown)
      => (lastOp.foundId <=> MatchingRecords(lastOp.target) # {})

\* the pad had turned left and gone up the diagonal to (-7,9,315); 'up' then
\* found the record (-8,10,315), in row 22 of a table whose row 1 is (-81,0,315)
C12_Witness ==
    /\ lastOp.op = "step" /\ lastOp.foundId
    /\ lastOp.before = <<-7, 9, 315>>
    /\ lastOp.target = <<-8, 10, 315>>
    /\ pose = <<-8, 10, 315>>
    /\ tableRows = LookupTable
    /\ tableRows[1] = <<-81, 0, 315>>
    /\ selection = <<SelectionId(22, <<"X", "-", "8", "Y", "1", "0", "V", "3", "1", "5">>)>>
    /\ selectCount = 10

(* ---------------------------------- C13 -------------------------------- *)

(* The handlers in steps.  lastOp is the activation record of the handler     *)
(* dispatched last, and lastOp.op its position:                               *)
(*   "step:lookup"    step has composed newPositionMetadata (lines 284-310),  *)
(*   "step:commit"    the loop has found a data point and select has been     *)
(*                    called with it (lines 312-327),                         *)
(*   "update:assign"  visualTransform has returned the new view model         *)
(*                    (right side of line 263),                               *)
(*   "step", "update" the handler has returned or thrown.                     *)
(* prevOp is the activation record lastOp replaced at the dispatch.           *)

Returned(position) == position \in {"none", "step", "update"}
InFlight(position) == ~Returned(position)

\* (variant: step awaits the promise of selectionManager.select before it
\* stores the pose)
SuspendedAwaitingSelect(position) == position = "step:commit"

\* is a handler at this position suspended, with control back in the host's
\* event loop?  step and update are plain synchronous methods: no position
\* of theirs is an await, a yield or a callback registration
Suspended(position) == FALSE

\* the host's event loop runs a handler when no handler is running
CanDispatch == Returned(lastOp.op) \/ Suspended(lastOp.op)

\* the data views of the stepwise specification
StepwiseDataViews ==
    {MakeDataView(AllRoles, rows, <<>>) :
        rows \in {ExampleTable, DuplicateTable, <<<<1, 1, 315>>>>, <<>>}}
    \cup {MakeDataView(NoRotation, <<<<1, 2, 0>>>>, <<>>), NoDataView}

\* a click on button b is dispatched: lines 284-310 of step
BeginStep(b) ==
    /\ CanDispatch
    /\ selectCount < MaxSelects
    /\ lastOp' = [op |-> "step:lookup", button |-> b,
                  direction |-> buttonDirection[b], step |-> buttonStep[b],
                  before |-> pose,
                  target |-> <<NewHorizontal(lastHorizontal, lastRotation,
                                             buttonDirection[b], buttonStep[b]),
                               NewVertical(lastVertical, lastRotation,
                                           buttonDirection[b], buttonStep[b]),
                               NewRotation(lastRotation, buttonDirection[b], buttonStep[b])>>,
                  foundId |-> FALSE, thrown |-> FALSE,
                  malformed |-> FALSE, dv |-> NoDataView]
    /\ prevOp' = lastOp
    /\ UNCHANGED <<lastHorizontal, lastVertical, lastRotation, viewModel, visualSettings,
                   selection, selectCount, tableRows, refreshedSinceMove, moveCount>>

\* lines 312-327 of step: the loop over this.viewModel.dataPoints and the
\* call of select; the handler returns here when nothing was found, and
\* throws when this.viewModel is undefined
LookupAndSelect ==
    /\ lastOp.op = "step:lookup"
    /\ LET thrown == ~viewModel.defined
           index == IF thrown THEN 0
                    ELSE FindDataPoint(viewModel.dataPoints,
                                       PositionMetadata(lastOp.target[1], lastOp.target[2],
                                                        lastOp.target[3]))
           foundId == index # 0
           newSelectionId == IF foundId THEN viewModel.dataPoints[index].selectionId
                             ELSE SelectionId(0, <<>>)
           calls == SelectCalls(foundId, newSelectionId)
       IN /\ selection' = IF Len(calls) = 0 THEN selection ELSE <<calls[Len(calls)]>>
          /\ selectCount' = selectCount + Len(calls)
          /\ lastOp' = [lastOp EXCEPT !.op = IF foundId THEN "step:commit" ELSE "step",
                                      !.foundId = foundId, !.thrown = thrown]
    /\ UNCHANGED <<lastHorizontal, lastVertical, lastRotation, viewModel, visualSettings,
                   tableRows, refreshedSinceMove, moveCount, prevOp>>

\* lines 328-330 of step, run by the step that is at "step:commit": the
\* running one, or the suspended one once the handler run meanwhile returned
CommitPose ==
    LET resumed == Returned(lastOp.op) /\ prevOp.op = "step:commit"
        record == IF resumed THEN prevOp ELSE lastOp
    IN /\ lastOp.op = "step:commit" \/ resumed
       /\ lastHorizontal' = Commit(record.foundId, record.target[1], lastHorizontal)
       /\ lastVertical' = Commit(record.foundId, record.target[2], lastVertical)
       /\ lastRotation' = Commit(record.foundId, record.target[3], lastRotation)
       /\ moveCount' = moveCount + 1
       /\ refreshedSinceMove' = FALSE
       /\ lastOp' = IF resumed THEN lastOp ELSE [lastOp EXCEPT !.op = "step"]
       /\ prevOp' = IF resumed THEN [prevOp EXCEPT !.op = "step"] ELSE prevOp
       /\ UNCHANGED <<viewModel, visualSettings, selection, selectCount, tableRows>>

\* a refresh is dispatched: visualTransform builds the new view model in its
\* locals (right side of line 263), or throws
BeginUpdate(dv) ==
    /\ CanDispatch
    /\ lastOp' = [op |-> IF Transformed[dv].thrown THEN "update" ELSE "update:assign",
                  button |-> 0, direction |-> "", step |-> 0,
                  before |-> pose, target |-> pose, foundId |-> FALSE,
                  thrown |-> Transformed[dv].thrown,
                  malformed |-> Transformed[dv].malformed, dv |-> dv]
    /\ prevOp' = lastOp
    /\ UNCHANGED <<lastHorizontal, lastVertical, lastRotation, viewModel, visualSettings,
                   selection, selectCount, tableRows, refreshedSinceMove, moveCount>>

\* the assignments of lines 263-264 and the rest of update
AssignViewModel ==
    /\ lastOp.op = "update:assign"
    /\ viewModel' = Transformed[lastOp.dv].viewModel
    /\ visualSettings' = [defined |-> TRUE,
                          settings |-> Transformed[lastOp.dv].viewModel.settings]
    /\ tableRows' = Transformed[lastOp.dv].rows
    /\ refreshedSinceMove' = TRUE
    /\ lastOp' = [lastOp EXCEPT !.op = "update"]
    /\ UNCHANGED <<lastHorizontal, lastVertical, lastRotation, selection, selectCount,
                   moveCount, prevOp>>

StepwiseNext ==
    \/ \E b \in 1..Len(buttonNames) : BeginStep(b)
    \/ LookupAndSelect
    \/ CommitPose
    \/ \E dv \in StepwiseDataViews : BeginUpdate(dv)
    \/ AssignViewModel

StepwiseSpec == Init /\ [][StepwiseNext]_vars

\* C13: moves and refreshes never interleave.  No handler is dispatched while
\* another is in flight; while a move is in flight the PositionTable does not
\* change, and the pose it commits has a record in the table as it is then;
\* while a refresh is in flight the table is the old one, whole, and the step
\* that replaces it installs every record of the new load.
C13_HandlersDoNotInterleave ==
    /\ [](~InFlight(prevOp.op))
    /\ [][ lastOp.op \in {"step:lookup", "step:commit"}
             => /\ viewModel' = viewModel
                /\ lastOp'.button = lastOp.button /\ lastOp'.target = lastOp.target
                /\ pose' # pose => (MatchingRecords(lastOp.target) # {}
                                      /\ pose' = lastOp.target) ]_vars
    /\ [][ lastOp.op = "update:assign"
             => /\ pose' = pose /\ selectCount' = selectCount
                /\ lastOp'.op = "update" /\ lastOp'.dv = lastOp.dv
                /\ tableRows' = RowsOf(lastOp.dv)
                /\ Len(viewModel'.dataPoints) = Len(RowsOf(lastOp.dv)) ]_vars

\* a move is between its call of select and its commit, on the table a
\* refresh had installed after an earlier move
C13_Witness ==
    /\ lastOp.op = "step:commit" /\ lastOp.foundId
    /\ prevOp.op = "update" /\ ~prevOp.thrown
    /\ moveCount = 1 /\ selectCount = 2
    /\ pose = lastOp.before /\ pose # lastOp.target
    /\ tableRows = RowsOf(prevOp.dv)
    /\ MatchingRecords(lastOp.target) # {}

====
